---- MODULE Spec2Model ----
(***************************************************************************)
(* Model of gdynet/preprocess.py: Preprocess.load_data,                    *)
(* Preprocess.construct_graph (both backends) and Preprocess.preprocess.   *)
(*                                                                         *)
(* Coordinates and lattice entries are integers.  Distances are kept as    *)
(* squared distances (np.sqrt is strictly increasing, so every comparison  *)
(* and every sort on distances is the same on their squares; a distance    *)
(* is 0 exactly when its square is 0).  The float32/int32 casts of         *)
(* load_data are exact on these small integers.  Progress output (print,   *)
(* tqdm) changes no state and is left out.                                 *)
(***************************************************************************)
EXTENDS Integers, Sequences, FiniteSets, TLC

VARIABLES
    backend, n_nbrs, radius,          \* self.backend, self.n_nbrs, self.radius
    traj_coords, lattices,            \* arrays of the input file
    atom_types, target_index,
    pc,                               \* position inside preprocess()
    err,                              \* the exception that ended the run
    frame,                            \* number of frames taken from zip(...)
    all_nbrs,                         \* all_nbrs_idxes / all_nbrs of the frame
    idx,                              \* loop variable of the per-atom loop
    nbr_idx_dist,                     \* sorted candidates of the last atom
    nbr_list, nbr_dist,               \* rows of the frame under construction
    nbr_lists, nbr_dists,             \* finished frame graphs
    diag_lattices,
    results,                          \* dict returned by construct_graph
    saved,                            \* content written by np.savez_compressed
    searched                          \* frames whose neighbor search has run

vars == <<backend, n_nbrs, radius, traj_coords, lattices, atom_types,
          target_index, pc, err, frame, all_nbrs, idx, nbr_idx_dist,
          nbr_list, nbr_dist, nbr_lists, nbr_dists, diag_lattices, results,
          saved, searched>>

(***************************************************************************)
(* Bounds of the model.                                                    *)
(***************************************************************************)
NumFrames == 2
NumAtoms == 3
MaxCoord == 3
MaxNbrs == 2
MaxRadius == 2

Atoms == 0 .. (NumAtoms - 1)

\* Atom positions: points on the second box axis.
Points == { <<0, y, 0>> : y \in 0 .. MaxCoord }
Origin == <<0, 0, 0>>

\* Lattice matrices, one row per lattice vector.
CubicLattice == << <<4, 0, 0>>, <<0, 4, 0>>, <<0, 0, 4>> >>
ThinLattice == << <<1, 0, 0>>, <<0, 4, 0>>, <<0, 0, 4>> >>
ShearedLattice == << <<4, 0, 0>>, <<1, 4, 0>>, <<0, 0, 4>> >>
Lattices == {CubicLattice, ThinLattice, ShearedLattice}

None == [type |-> "None", msg |-> "", args |-> <<>>]
NoResults == [kind |-> "None"]

(***************************************************************************)
(* Helpers on integers, vectors and sequences.                             *)
(***************************************************************************)
MinOf(S) == CHOOSE m \in S : \A x \in S : m <= x

Norm2(v) == v[1] * v[1] + v[2] * v[2] + v[3] * v[3]

Range(s) == { s[k] : k \in DOMAIN s }

\* All enumeration orders of a finite set.
Orders(S) ==
    { s \in [1 .. Cardinality(S) -> S] : \A e \in S : \E k \in DOMAIN s : s[k] = e }

\* sorted(seq, key=...): Python's sort is stable, so entries with equal keys
\* keep the order they had in seq.  Key(e) is an integer.
RECURSIVE SortedByKeys(_, _, _)
SortedByKeys(seq, pos, keys) ==
    IF keys = {} THEN << >>
    ELSE LET m == MinOf(keys)
         IN  SelectSeq(seq, LAMBDA e : e[pos] = m)
                 \o SortedByKeys(seq, pos, keys \ {m})

sorted(seq, pos) == SortedByKeys(seq, pos, { seq[k][pos] : k \in DOMAIN seq })

\* seq[a:b] of Python (0-based, b exclusive, clipped to the length).
Slice(seq, a, b) ==
    LET hi == IF b < Len(seq) THEN b ELSE Len(seq)
    IN  IF a >= hi THEN << >> ELSE [k \in 1 .. (hi - a) |-> seq[a + k]]

(***************************************************************************)
(* Shapes of the loaded arrays.                                            *)
(***************************************************************************)
CoordsShape(tc) == <<Len(tc), Cardinality(DOMAIN tc[1]), Len(tc[1][0])>>
LatticesShape(ls) == <<Len(ls), Len(ls[1]), Len(ls[1][1])>>

\* np.diagonal(lattice)
diagonal(lmat) == <<lmat[1][1], lmat[2][2], lmat[3][3]>>

\* np.allclose(lmat, np.diag(np.diagonal(lmat))): on integer entries the
\* tolerance 1e-8 admits only off-diagonal entries equal to 0.
IsDiagonal(lmat) ==
    \A r \in 1 .. 3 : \A c \in 1 .. 3 : r # c => lmat[r][c] = 0

(***************************************************************************)
(* utils.distance_pbc: minimum-image distance in an orthogonal box whose   *)
(* axis lengths are lattice = (Lx, Ly, Lz).  Each coordinate difference    *)
(* loses the nearest integer multiple of the axis length.  The result is   *)
(* the squared distance.                                                   *)
(***************************************************************************)
Wrap(d, L) == d - L * ((2 * d + L) \div (2 * L))

distance_pbc(x0, x1, lattice) ==
    Norm2([a \in 1 .. 3 |-> Wrap(x1[a] - x0[a], lattice[a])])

(***************************************************************************)
(* utils.PeriodicCKDTree(lattice, coord).query_ball_point(coord, radius).  *)
(* The indexed point set is the N points plus their copies shifted by      *)
(* plus or minus one box length along every axis; a query returns the      *)
(* source atoms of the points within radius, each atom once.  The halo is  *)
(* enough only for radius <= min(L) / 2, and a larger radius is rejected.  *)
(***************************************************************************)
Halo == { <<a, b, c>> : a \in -1 .. 1, b \in -1 .. 1, c \in -1 .. 1 }

HaloPoint(p, n, lattice) == [a \in 1 .. 3 |-> p[a] + n[a] * lattice[a]]

Diff(p, q) == [a \in 1 .. 3 |-> q[a] - p[a]]

\* the index never refuses a radius
RadiusTooLarge_Never(lattice, r) == FALSE

RadiusTooLarge(lattice, r) ==
    2 * r > MinOf({ lattice[a] : a \in 1 .. 3 })

query_ball_point(lattice, coord, r) ==
    [i \in DOMAIN coord |->
        { j \in DOMAIN coord :
            \E n \in Halo :
                Norm2(Diff(coord[i], HaloPoint(coord[j], n, lattice))) <= r * r }]

(***************************************************************************)
(* pymatgen IStructure(lattice, species, coords).get_all_neighbors(r,      *)
(* include_index=True): for every atom the tuples (site, distance, index)  *)
(* of all periodic images of all atoms at a distance in (1e-8, r].  The    *)
(* images are visited in itertools.product order and, inside one image,    *)
(* the atoms in index order.  The atom itself (distance 0) is left out,    *)
(* its periodic images are not.  This is the library routine the direct    *)
(* branch calls; ImageReach spans every image that can lie within r for    *)
(* the lattices and positions used here, and images farther than r are     *)
(* filtered out, so a wider span would give the same lists.                *)
(***************************************************************************)
ImageReach(lmat, a, r) == (r \div lmat[a][a]) + 1

\* the k-th image (k from 0) of itertools.product over the three ranges
ImageAt(lmat, r, k) ==
    LET w2 == 2 * ImageReach(lmat, 2, r) + 1
        w3 == 2 * ImageReach(lmat, 3, r) + 1
    IN  << (k \div (w2 * w3)) - ImageReach(lmat, 1, r),
           ((k \div w3) % w2) - ImageReach(lmat, 2, r),
           (k % w3) - ImageReach(lmat, 3, r) >>

NumImages(lmat, r) ==
    (2 * ImageReach(lmat, 1, r) + 1) * (2 * ImageReach(lmat, 2, r) + 1)
        * (2 * ImageReach(lmat, 3, r) + 1)

\* Cartesian position of atom position p moved by the image n
ImageSite(p, n, lmat) ==
    [a \in 1 .. 3 |->
        p[a] + n[1] * lmat[1][a] + n[2] * lmat[2][a] + n[3] * lmat[3][a]]

get_all_neighbors(lmat, coord, r) ==
    LET N == Cardinality(DOMAIN coord)
        entry(i, k) ==
            LET site == ImageSite(coord[k % N], ImageAt(lmat, r, k \div N), lmat)
            IN  <<site, Norm2(Diff(coord[i], site)), k % N>>
        every(i) == [k \in 1 .. (NumImages(lmat, r) * N) |-> entry(i, k - 1)]
    IN  [i \in DOMAIN coord |->
            SelectSeq(every(i), LAMBDA e : e[2] <= r * r /\ e[2] > 0)]

(***************************************************************************)
(* Initial states: the object after __init__ (backend already validated)   *)
(* and the content of the input file.                                      *)
(***************************************************************************)
BaseFrame == [i \in Atoms |-> <<0, i, 0>>]
BaseTypes == [k \in 1 .. NumAtoms |-> 3]

\* Well-shaped input files; atom 0 sits at the origin of every frame.
WellShaped ==
    /\ traj_coords \in
           [1 .. NumFrames -> { c \in [Atoms -> Points] : c[0] = Origin }]
    /\ lattices \in [1 .. NumFrames -> Lattices]
    /\ atom_types = BaseTypes
    /\ target_index = {0}
    /\ n_nbrs \in 1 .. MaxNbrs
    /\ radius \in 1 .. MaxRadius

\* Input files that one of the shape checks of load_data refuses.
Malformed ==
    /\ n_nbrs = 1
    /\ radius = 1
    /\ \/ /\ traj_coords = [f \in 1 .. NumFrames |-> [i \in Atoms |-> <<0, i>>]]
          /\ lattices = [f \in 1 .. NumFrames |-> CubicLattice]
          /\ atom_types = BaseTypes
          /\ target_index = {0}
       \/ /\ traj_coords = [f \in 1 .. NumFrames |-> BaseFrame]
          /\ lattices = [f \in 1 .. NumFrames |-> << <<4, 0>>, <<0, 4>> >>]
          /\ atom_types = BaseTypes
          /\ target_index = {0}
       \/ /\ traj_coords = [f \in 1 .. NumFrames |-> BaseFrame]
          /\ lattices = [f \in 1 .. (NumFrames + 1) |-> CubicLattice]
          /\ atom_types = BaseTypes
          /\ target_index = {0}
       \/ /\ traj_coords = [f \in 1 .. NumFrames |-> BaseFrame]
          /\ lattices = [f \in 1 .. NumFrames |-> CubicLattice]
          /\ atom_types = [k \in 1 .. (NumAtoms + 1) |-> 3]
          /\ target_index = {0}
       \/ /\ traj_coords = [f \in 1 .. NumFrames |-> BaseFrame]
          /\ lattices = [f \in 1 .. NumFrames |-> CubicLattice]
          /\ atom_types = BaseTypes
          /\ target_index = {0, NumAtoms}

Init ==
    /\ backend \in {"kdtree", "direct"}
    /\ (WellShaped \/ Malformed)
    /\ pc = "start"
    /\ err = None
    /\ frame = 0
    /\ all_nbrs = << >>
    /\ idx = 0
    /\ nbr_idx_dist = << >>
    /\ nbr_list = << >>
    /\ nbr_dist = << >>
    /\ nbr_lists = << >>
    /\ nbr_dists = << >>
    /\ diag_lattices = << >>
    /\ results = NoResults
    /\ saved = NoResults
    /\ searched = << >>

config == <<backend, n_nbrs, radius>>
input == <<traj_coords, lattices, atom_types, target_index>>
loop == <<frame, all_nbrs, idx, nbr_idx_dist, nbr_list, nbr_dist, nbr_lists,
          nbr_dists, diag_lattices, searched>>

\* An exception leaves preprocess(): nothing after the raise runs.
Raise(type, msg, args) ==
    /\ pc' = "error"
    /\ err' = [type |-> type, msg |-> msg, args |-> args]

(***************************************************************************)
(* load_data                                                               *)
(***************************************************************************)
\* only the first lattice is looked at
LatticeCheckFails_FirstOnly ==
    ~IsDiagonal(lattices[1]) /\ backend = "kdtree"

\* for lmat in lattices: the kdtree backend refuses a non-diagonal lattice
LatticeCheckFails ==
    \E f \in DOMAIN lattices :
        ~IsDiagonal(lattices[f]) /\ backend = "kdtree"

LoadData ==
    /\ pc = "start"
    /\ IF CoordsShape(traj_coords)[3] # 3
       THEN Raise("ValueError", "traj_coords should have shape (F, N, 3)",
                  <<CoordsShape(traj_coords)>>)
       ELSE IF <<LatticesShape(lattices)[2], LatticesShape(lattices)[3]>> # <<3, 3>>
       THEN Raise("ValueError", "lattices should have shape (F, 3, 3)",
                  <<LatticesShape(lattices)>>)
       ELSE IF CoordsShape(traj_coords)[1] # LatticesShape(lattices)[1]
       THEN Raise("ValueError", "number of frames does not match",
                  <<CoordsShape(traj_coords)[1], LatticesShape(lattices)[1]>>)
       ELSE IF CoordsShape(traj_coords)[2] # Len(atom_types)
       THEN Raise("ValueError", "number of atom does not match",
                  <<CoordsShape(traj_coords)[2], Len(atom_types)>>)
       ELSE IF ~(target_index \subseteq 0 .. (Len(atom_types) - 1))
       THEN Raise("ValueError", "target_index out of boundary", << >>)
       ELSE IF LatticeCheckFails
       THEN Raise("ValueError",
                  "non-orthogonal lattices can only use direct as backend", << >>)
       ELSE pc' = "frame" /\ err' = err
    /\ UNCHANGED <<config, input, loop, results, saved>>

(***************************************************************************)
(* construct_graph, backend 'kdtree'                                       *)
(***************************************************************************)
\* the candidates of atom i in the order nbr_idxes, with their distances,
\* sorted by distance
KdtreeSorted(coord, lattice, i, nbr_idxes) ==
    sorted([k \in DOMAIN nbr_idxes |->
               <<nbr_idxes[k], distance_pbc(coord[i], coord[nbr_idxes[k]], lattice)>>],
           2)

\* the assertion without its self-consistency half
KdtreeAssert_CountOnly(cands, i) == Len(cands) >= n_nbrs + 1

\* the assertion of lines 131-133
KdtreeAssert(cands, i) ==
    /\ cands[1][2] = 0
    /\ cands[1][1] = i
    /\ Len(cands) >= n_nbrs + 1

KdtreeRow(cands) ==
    LET cut == Slice(cands, 1, n_nbrs + 1)
    IN  [k \in DOMAIN cut |-> cut[k][1]]

\* the ball query is made on the coordinates of the first frame
KdtreeFrame_FirstCoords ==
    /\ pc = "frame"
    /\ backend = "kdtree"
    /\ frame < Len(traj_coords)
    /\ frame' = frame + 1
    /\ diag_lattices' = Append(diag_lattices, diagonal(lattices[frame + 1]))
    /\ IF RadiusTooLarge(diagonal(lattices[frame + 1]), radius)
       THEN /\ Raise("ValueError", "radius exceeds half the shortest box axis", << >>)
            /\ UNCHANGED <<all_nbrs, nbr_list, searched>>
       ELSE /\ all_nbrs' = query_ball_point(diagonal(lattices[frame + 1]),
                                            traj_coords[1], radius)
            /\ nbr_list' = << >>
            /\ searched' = Append(searched, frame + 1)
            /\ pc' = "atoms"
            /\ err' = err
    /\ UNCHANGED <<config, input, idx, nbr_idx_dist, nbr_dist, nbr_lists,
                   nbr_dists, results, saved>>

\* one turn of the frame loop up to the ball query
KdtreeFrame ==
    /\ pc = "frame"
    /\ backend = "kdtree"
    /\ frame < Len(traj_coords)
    /\ frame' = frame + 1
    /\ diag_lattices' = Append(diag_lattices, diagonal(lattices[frame + 1]))
    /\ IF RadiusTooLarge(diagonal(lattices[frame + 1]), radius)
       THEN /\ Raise("ValueError", "radius exceeds half the shortest box axis", << >>)
            /\ UNCHANGED <<all_nbrs, nbr_list, searched>>
       ELSE /\ all_nbrs' = query_ball_point(diagonal(lattices[frame + 1]),
                                            traj_coords[frame + 1], radius)
            /\ nbr_list' = << >>
            /\ searched' = Append(searched, frame + 1)
            /\ pc' = "atoms"
            /\ err' = err
    /\ UNCHANGED <<config, input, idx, nbr_idx_dist, nbr_dist, nbr_lists,
                   nbr_dists, results, saved>>

\* one turn of the atom loop
KdtreeAtom ==
    /\ pc = "atoms"
    /\ backend = "kdtree"
    /\ Len(nbr_list) < Cardinality(DOMAIN traj_coords[frame])
    /\ idx' = Len(nbr_list)
    /\ \E nbr_idxes \in Orders(all_nbrs[idx']) :
          /\ nbr_idx_dist' = KdtreeSorted(traj_coords[frame], diag_lattices[frame],
                                          idx', nbr_idxes)
          /\ IF KdtreeAssert(nbr_idx_dist', idx')
             THEN /\ nbr_list' = Append(nbr_list, KdtreeRow(nbr_idx_dist'))
                  /\ pc' = pc
                  /\ err' = err
             ELSE /\ Raise("AssertionError", "", << >>)
                  /\ nbr_list' = nbr_list
    /\ UNCHANGED <<config, input, frame, all_nbrs, nbr_dist, nbr_lists,
                   nbr_dists, diag_lattices, results, saved, searched>>

\* nbr_lists.append(np.stack(...)) at the end of a frame
KdtreeFrameEnd ==
    /\ pc = "atoms"
    /\ backend = "kdtree"
    /\ Len(nbr_list) = Cardinality(DOMAIN traj_coords[frame])
    /\ nbr_lists' = Append(nbr_lists, nbr_list)
    /\ pc' = "frame"
    /\ UNCHANGED <<config, input, err, frame, all_nbrs, idx, nbr_idx_dist,
                   nbr_list, nbr_dist, nbr_dists, diag_lattices, results, saved,
                   searched>>

\* the loop is left after the first frame
KdtreeReturn_Partial ==
    /\ pc = "frame"
    /\ backend = "kdtree"
    /\ frame >= 1
    /\ results' = [kind |-> "kdtree",
                   traj_coords |-> traj_coords,
                   lattices |-> diag_lattices,
                   atom_types |-> atom_types,
                   target_index |-> target_index,
                   nbr_lists |-> nbr_lists]
    /\ pc' = "returned"
    /\ UNCHANGED <<config, input, err, loop, saved>>

KdtreeReturn ==
    /\ pc = "frame"
    /\ backend = "kdtree"
    /\ frame = Len(traj_coords)
    /\ results' = [kind |-> "kdtree",
                   traj_coords |-> traj_coords,
                   lattices |-> diag_lattices,
                   atom_types |-> atom_types,
                   target_index |-> target_index,
                   nbr_lists |-> nbr_lists]
    /\ pc' = "returned"
    /\ UNCHANGED <<config, input, err, loop, saved>>

(***************************************************************************)
(* construct_graph, backend 'direct'                                       *)
(***************************************************************************)
\* nbr[:n_nbrs] mapped to the field at position pos of each tuple
DirectRow(nbr, pos) ==
    LET cut == Slice(nbr, 0, n_nbrs)
    IN  [k \in DOMAIN cut |-> cut[k][pos]]

\* one turn of the frame loop up to the sorted candidate lists
DirectFrame ==
    /\ pc = "frame"
    /\ backend = "direct"
    /\ frame < Len(traj_coords)
    /\ frame' = frame + 1
    /\ all_nbrs' =
          LET found == get_all_neighbors(lattices[frame + 1],
                                         traj_coords[frame + 1], radius)
          IN  [i \in DOMAIN found |-> sorted(found[i], 2)]
    /\ nbr_list' = << >>
    /\ nbr_dist' = << >>
    /\ searched' = Append(searched, frame + 1)
    /\ pc' = "atoms"
    /\ UNCHANGED <<config, input, err, idx, nbr_idx_dist, nbr_lists, nbr_dists,
                   diag_lattices, results, saved>>

\* one turn of the atom loop
DirectAtom ==
    /\ pc = "atoms"
    /\ backend = "direct"
    /\ Len(nbr_list) < Cardinality(DOMAIN traj_coords[frame])
    /\ idx' = Len(nbr_list)
    /\ IF Len(all_nbrs[idx']) >= n_nbrs
       THEN /\ nbr_list' = Append(nbr_list, DirectRow(all_nbrs[idx'], 3))
            /\ nbr_dist' = Append(nbr_dist, DirectRow(all_nbrs[idx'], 2))
            /\ pc' = pc
            /\ err' = err
       ELSE /\ Raise("AssertionError", "not find enough neighbors", << >>)
            /\ UNCHANGED <<nbr_list, nbr_dist>>
    /\ UNCHANGED <<config, input, frame, all_nbrs, nbr_idx_dist, nbr_lists,
                   nbr_dists, diag_lattices, results, saved, searched>>

DirectFrameEnd ==
    /\ pc = "atoms"
    /\ backend = "direct"
    /\ Len(nbr_list) = Cardinality(DOMAIN traj_coords[frame])
    /\ nbr_lists' = Append(nbr_lists, nbr_list)
    /\ nbr_dists' = Append(nbr_dists, nbr_dist)
    /\ pc' = "frame"
    /\ UNCHANGED <<config, input, err, frame, all_nbrs, idx, nbr_idx_dist,
                   nbr_list, nbr_dist, diag_lattices, results, saved, searched>>

DirectReturn ==
    /\ pc = "frame"
    /\ backend = "direct"
    /\ frame = Len(traj_coords)
    /\ results' = [kind |-> "direct",
                   traj_coords |-> traj_coords,
                   atom_types |-> atom_types,
                   target_index |-> target_index,
                   nbr_lists |-> nbr_lists,
                   nbr_dists |-> nbr_dists]
    /\ pc' = "returned"
    /\ UNCHANGED <<config, input, err, loop, saved>>

(***************************************************************************)
(* preprocess: np.savez_compressed(self.output_file, **results)            *)
(***************************************************************************)
Save ==
    /\ pc = "returned"
    /\ saved' = results
    /\ pc' = "saved"
    /\ UNCHANGED <<config, input, err, loop, results>>

Next ==
    \/ LoadData
    \/ KdtreeFrame
    \/ KdtreeAtom
    \/ KdtreeFrameEnd
    \/ KdtreeReturn
    \/ DirectFrame
    \/ DirectAtom
    \/ DirectFrameEnd
    \/ DirectReturn
    \/ Save

Spec == Init /\ [][Next]_vars

(***************************************************************************)
(* Vocabulary of the properties.                                           *)
(***************************************************************************)
Returned == pc \in {"returned", "saved"}

\* the five shape checks of load_data pass
ShapesOK ==
    /\ CoordsShape(traj_coords)[3] = 3
    /\ <<LatticesShape(lattices)[2], LatticesShape(lattices)[3]>> = <<3, 3>>
    /\ CoordsShape(traj_coords)[1] = LatticesShape(lattices)[1]
    /\ CoordsShape(traj_coords)[2] = Len(atom_types)
    /\ target_index \subseteq 0 .. (Len(atom_types) - 1)

\* periodic distance (squared) of two positions: the nearest image
PeriodicDist(lmat, p, q) ==
    MinOf({ Norm2(Diff(p, ImageSite(q, n, lmat))) : n \in Halo })

\* periodic distance of atoms i and j in input frame f
AtomDist(f, i, j) ==
    PeriodicDist(lattices[f], traj_coords[f][i], traj_coords[f][j])

\* the neighbor list returned for atom i of frame f
ReturnedRow(f, i) == results.nbr_lists[f][i + 1]

FrameAtoms(f) == DOMAIN traj_coords[f]

\* the atom of the atom loop's last turn has been handled
AtomHandled ==
    /\ frame >= 1
    /\ \/ pc \in {"atoms", "frame", "returned", "saved"} /\ Len(nbr_list) = idx + 1
       \/ pc = "error" /\ err.type = "AssertionError"

\* candidates of atom i in frame f whose index is not i
OtherCandidates(f, i) ==
    IF backend = "kdtree"
    THEN Cardinality(query_ball_point(diagonal(lattices[f]), traj_coords[f],
                                      radius)[i] \ {i})
    ELSE Len(SelectSeq(get_all_neighbors(lattices[f], traj_coords[f], radius)[i],
                       LAMBDA e : e[3] # i))

\* the exception names atom i and frame f
ErrNames(i, f) ==
    /\ \E k \in DOMAIN err.args : err.args[k] = i
    /\ \E k \in DOMAIN err.args : err.args[k] = f

(***************************************************************************)
(* C1: whenever construct_graph succeeds, the neighbor list of every atom  *)
(* i of every frame holds atoms other than i, and every atom j # i that    *)
(* is not in the list is at least as far from i (periodic distance) as     *)
(* every atom in the list.                                                 *)
(***************************************************************************)
C1_NearestOthers ==
    Returned =>
        \A f \in DOMAIN traj_coords : \A i \in FrameAtoms(f) :
            LET row == ReturnedRow(f, i)
            IN  /\ Len(row) = n_nbrs
                /\ \A k \in DOMAIN row : row[k] # i
                /\ \A j \in FrameAtoms(f) \ ({i} \cup Range(row)) :
                       \A k \in DOMAIN row :
                           AtomDist(f, i, j) >= AtomDist(f, i, row[k])

(***************************************************************************)
(* C2: for both backends, every returned neighbor list has exactly n_nbrs  *)
(* entries and none of them is the query atom's own index.                 *)
(***************************************************************************)
C2_CountAndNoSelf ==
    Returned =>
        \A f \in DOMAIN traj_coords : \A i \in FrameAtoms(f) :
            /\ Len(ReturnedRow(f, i)) = n_nbrs
            /\ i \notin Range(ReturnedRow(f, i))

(***************************************************************************)
(* C3: the entries of every returned neighbor list are in non-decreasing   *)
(* order of periodic distance to the query atom, and entries at the same   *)
(* distance are in ascending order of atom index.                          *)
(***************************************************************************)
C3_SortedTiesByIndex ==
    Returned =>
        \A f \in DOMAIN traj_coords : \A i \in FrameAtoms(f) :
            LET row == ReturnedRow(f, i)
            IN  \A k \in 1 .. (Len(row) - 1) :
                    /\ AtomDist(f, i, row[k]) <= AtomDist(f, i, row[k + 1])
                    /\ AtomDist(f, i, row[k]) = AtomDist(f, i, row[k + 1])
                           => row[k] < row[k + 1]

(***************************************************************************)
(* C4: when fewer than n_nbrs candidates other than the atom itself lie    *)
(* within radius of the atom the loop has just handled, the run has        *)
(* failed with an error that names that atom and that frame (frames are    *)
(* counted from 0), and no neighbor list was taken for the atom.           *)
(***************************************************************************)
C4_InsufficientNamed ==
    (ShapesOK /\ AtomHandled /\ OtherCandidates(frame, idx) < n_nbrs) =>
        /\ pc = "error"
        /\ ErrNames(idx, frame - 1)
        /\ Len(nbr_list) = idx

(***************************************************************************)
(* C5: with backend 'kdtree', a non-diagonal lattice in any frame ends the *)
(* run with an error before the neighbor search of any frame has run and   *)
(* before anything is saved; with backend 'direct' load_data accepts the   *)
(* same input (a direct run raises no ValueError on well-shaped input).    *)
(***************************************************************************)
HasNonDiagonal == \E f \in DOMAIN lattices : ~IsDiagonal(lattices[f])

C5_NonDiagonalRejected ==
    ShapesOK =>
        /\ (backend = "kdtree" /\ HasNonDiagonal) =>
               /\ pc \in {"start", "error"}
               /\ pc = "error" => err.type = "ValueError"
               /\ searched = << >>
               /\ diag_lattices = << >>
               /\ nbr_lists = << >>
               /\ results = NoResults
               /\ saved = NoResults
        /\ (backend = "direct" /\ pc = "error") => err.type = "AssertionError"

\* a kdtree run refused for a sheared lattice that only the last frame has
C5_Witness ==
    /\ backend = "kdtree"
    /\ pc = "error"
    /\ Len(lattices) > 1
    /\ ~IsDiagonal(lattices[Len(lattices)])
    /\ \A f \in 1 .. (Len(lattices) - 1) : IsDiagonal(lattices[f])

(***************************************************************************)
(* C6: with backend 'kdtree', when the radius is larger than half the      *)
(* shortest box axis of some frame, construct_graph never returns: no      *)
(* graph is built for such a frame, and no neighbor list of the kdtree     *)
(* backend holds an atom twice.                                            *)
(***************************************************************************)
NoRepeats(row) == \A k, l \in DOMAIN row : k # l => row[k] # row[l]

\* the radius is larger than half of some box axis of input frame f
ExceedsHalfBox(f) == \E a \in 1 .. 3 : 2 * radius > lattices[f][a][a]

AllFrames == [k \in 1 .. Len(traj_coords) |-> k]

C7_AllOrNothing ==
    /\ [](/\ results # NoResults =>
               /\ err = None
               /\ searched = AllFrames
               /\ Len(results.nbr_lists) = Len(traj_coords)
          /\ saved # NoResults => (pc = "saved" /\ saved = results)
          /\ pc = "saved" => saved # NoResults
          /\ pc = "error" =>
               (err # None /\ results = NoResults /\ saved = NoResults))
    /\ [][pc = "error" => pc' = "error"]_vars

\* the last frame fails after the earlier frames succeeded
C7_Witness ==
    /\ pc = "error"
    /\ err.type = "AssertionError"
    /\ frame = Len(traj_coords)
    /\ Len(nbr_lists) = Len(traj_coords) - 1
    /\ Len(nbr_lists) >= 1

(***************************************************************************)
(* C8: on diagonal lattices with radius at most half the shortest box      *)
(* axis, when the 'kdtree' run succeeded and the 'direct' backend succeeds *)
(* on the same input, both give the same set of neighbor indices for every *)
(* atom of every frame.                                                    *)
(***************************************************************************)
DirectSorted(f, i) ==
    sorted(get_all_neighbors(lattices[f], traj_coords[f], radius)[i], 2)

DirectSucceeds ==
    \A f \in DOMAIN traj_coords : \A i \in FrameAtoms(f) :
        Len(DirectSorted(f, i)) >= n_nbrs

C8_BackendsAgree ==
    (Returned /\ backend = "kdtree" /\ DirectSucceeds) =>
        \A f \in DOMAIN traj_coords : \A i \in FrameAtoms(f) :
            Range(ReturnedRow(f, i)) = Range(DirectRow(DirectSorted(f, i), 3))

RowsOf(f, i) ==
    IF backend = "kdtree"
    THEN { KdtreeRow(KdtreeSorted(traj_coords[f], diagonal(lattices[f]), i, o)) :
             o \in Orders(query_ball_point(diagonal(lattices[f]),
                                           traj_coords[f], radius)[i]) }
    ELSE { DirectRow(DirectSorted(f, i), 3) }

\* steps the run has left at most
Rank ==
    LET F == Len(traj_coords)
        N == Cardinality(DOMAIN traj_coords[1])
    IN  CASE pc = "start" -> F * (N + 2) + 3
          [] pc = "frame" -> (F - frame) * (N + 2) + 2
          [] pc = "atoms" -> (F - frame) * (N + 2) + (N - Len(nbr_list)) + 3
          [] pc = "returned" -> 1
          [] OTHER -> 0

C10_AllFramesInOrder ==
    /\ [](/\ Len(nbr_lists) <= Len(searched)
          /\ \A k \in DOMAIN searched : searched[k] = k
          /\ (pc = "frame" /\ frame >= 1) =>
                 /\ Len(nbr_lists) = frame
                 /\ Len(nbr_lists[frame]) = Cardinality(FrameAtoms(frame))
                 /\ \A i \in FrameAtoms(frame) :
                        nbr_lists[frame][i + 1] \in RowsOf(frame, i)
          /\ Returned =>
                 /\ searched = AllFrames
                 /\ frame = Len(traj_coords)
                 /\ results.nbr_lists = nbr_lists
                 /\ Len(results.nbr_lists) = Len(traj_coords)
                 /\ results.traj_coords = traj_coords
                 /\ results.atom_types = atom_types
                 /\ results.target_index = target_index)
    /\ [](/\ Rank >= 0
          /\ frame <= Len(traj_coords)
          /\ pc = "atoms" => Len(nbr_list) <= Cardinality(FrameAtoms(frame)))
    /\ [][/\ Rank' < Rank
          /\ input' = input
          /\ \/ nbr_lists' = nbr_lists
             \/ /\ Len(nbr_lists') = Len(nbr_lists) + 1
                /\ SubSeq(nbr_lists', 1, Len(nbr_lists)) = nbr_lists]_vars

\* a returned run whose frames differ and that has rows for non-target atoms
C10_Witness ==
    /\ Returned
    /\ Len(traj_coords) >= 2
    /\ traj_coords[1] # traj_coords[2]
    /\ results.nbr_lists[1] # results.nbr_lists[2]
    /\ \E i \in FrameAtoms(1) : i \notin target_index

====
